---- MODULE Spec2Model ----
(***************************************************************************)
(* Model of the due-dates job tracker (src/duedates.py, src/app.py).       *)
(*                                                                         *)
(*   SpecExtract  extract_job_details applied to a bounded set of bodies   *)
(*   SpecEnrich   process_job_ids applied to a bounded set of checkpoints  *)
(*   Spec         the Flask handlers and the background workers            *)
(*   SpecRun      the same actions, the runs not overlapping               *)
(*   SpecLive     the start requests and the threads, scheduled fairly     *)
(*                                                                         *)
(* Text is a sequence of one-character strings.  Python's None is the      *)
(* value None below, which no text equals.                                 *)
(***************************************************************************)
EXTENDS Integers, Sequences, FiniteSets, TLC

VARIABLES
    body, job_data, xpc,                         \* extract_job_details
    checkpoint, prior, queries, phases, epc,     \* process_job_ids
    processing, results_file, process_completed, \* app.py globals
    progress_state, files, workers, request, last_status,
    mailbox,                                     \* the two Gmail accounts
    ended                                        \* how the last run ended

xvars == <<body, job_data, xpc>>
evars == <<checkpoint, prior, queries, phases, epc>>
gvars == <<processing, results_file, process_completed, progress_state>>
ovars == <<processing, results_file, process_completed, progress_state,
           files, workers, request, last_status, ended>>
vars  == <<body, job_data, xpc, checkpoint, prior, queries, phases, epc,
           processing, results_file, process_completed, progress_state,
           files, workers, request, last_status, mailbox, ended>>

None == <<"<None>">>

\* ------------------------------------------------------------------ text

Lowers == <<"a","b","c","d","e","f","g","h","i","j","k","l","m",
            "n","o","p","q","r","s","t","u","v","w","x","y","z">>
Uppers == <<"A","B","C","D","E","F","G","H","I","J","K","L","M",
            "N","O","P","Q","R","S","T","U","V","W","X","Y","Z">>
Range(s) == {s[i] : i \in DOMAIN s}
Letter == Range(Lowers) \cup Range(Uppers)
Digit  == {"0","1","2","3","4","5","6","7","8","9"}
Word   == Letter \cup Digit \cup {"_"}
Space  == {" ", "\t", "\n", "\r", "\f"}

IndexIn(s, c) == CHOOSE i \in DOMAIN s : s[i] = c
ToLower(c) == IF c \in Range(Uppers) THEN Lowers[IndexIn(Uppers, c)] ELSE c
ToUpper(c) == IF c \in Range(Lowers) THEN Uppers[IndexIn(Lowers, c)] ELSE c

\* str.upper()
Upper(s) == [i \in 1..Len(s) |-> ToUpper(s[i])]

\* re.sub(r'\s+', '', s)
RemoveSpace(s) == SelectSeq(s, LAMBDA c : c \notin Space)

\* str.strip()
Strip(s) ==
    LET keep == {i \in 1..Len(s) : s[i] \notin Space}
    IN  IF keep = {} THEN <<>>
        ELSE LET lo == CHOOSE i \in keep : \A j \in keep : i <= j
                 hi == CHOOSE i \in keep : \A j \in keep : j <= i
             IN  SubSeq(s, lo, hi)

\* ------------------------------------------------- regular expressions
\* A matcher maps a position p (the next character read is b[p]) to the
\* sequence of positions it can end at, in the order the backtracking
\* engine of re tries them.  The first element is the match re reports.

FlatMap(F(_), ps) ==
    LET f[k \in 0..Len(ps)] == IF k = 0 THEN <<>> ELSE f[k-1] \o F(ps[k])
    IN  f[Len(ps)]

Keep(T(_), ps) == SelectSeq(ps, T)

\* the length of the longest run of characters of C that starts at p
RunLen(C, b, p) ==
    LET stop == {q \in p..Len(b) : b[q] \notin C}
    IN  IF stop = {} THEN Len(b) + 1 - p
        ELSE (CHOOSE q \in stop : \A r \in stop : q <= r) - p

\* C{min,} greedy: longest first
Greedy(C, min, b, p) ==
    LET n == RunLen(C, b, p)
    IN  IF n < min THEN <<>> ELSE [i \in 1..(n - min + 1) |-> p + n - (i - 1)]

\* C*? lazy: shortest first
Lazy(C, b, p) ==
    LET n == RunLen(C, b, p)
    IN  [i \in 1..(n + 1) |-> p + (i - 1)]

\* a literal, compared case-insensitively when ci (the (?i) flag)
Lit(s, ci, b, p) ==
    IF /\ p + Len(s) - 1 <= Len(b)
       /\ \A i \in 1..Len(s) :
            IF ci THEN ToLower(b[p + i - 1]) = ToLower(s[i]) ELSE b[p + i - 1] = s[i]
    THEN <<p + Len(s)>> ELSE <<>>

\* \s*
Ws(b, p) == Greedy(Space, 0, b, p)

\* the characters . matches (no DOTALL)
NotNewline(b) == Range(b) \ {"\n"}
\* the characters [^(] matches
NotParen(b) == Range(b) \ {"("}

\* \b
Boundary(b, p) ==
    LET before == p > 1 /\ b[p - 1] \in Word
        after  == p <= Len(b) /\ b[p] \in Word
    IN  before # after

\* $ without MULTILINE: the end, or just before a final newline
AtEnd(b, p) == p = Len(b) + 1 \/ (p = Len(b) /\ b[p] = "\n")

\* re.search: the leftmost position where M matches, and M's first result there
Search(M(_, _), b) ==
    LET hits == {p \in 1..(Len(b) + 1) : M(b, p) # <<>>}
    IN  IF hits = {} THEN <<>>
        ELSE Head(M(b, CHOOSE p \in hits : \A q \in hits : p <= q))

\* ---------------------------------------------------- extract_job_details

Chars_hybrid   == <<"h","y","b","r","i","d">>
Chars_onsite   == <<"o","n","s","i","t","e">>
Chars_remote   == <<"r","e","m","o","t","e">>
Chars_local    == <<"l","o","c","a","l">>
Chars_with     == <<"w","i","t","h">>
Chars_job      == <<"j","o","b">>
Chars_req      == <<"r","e","q">>
Chars_position == <<"p","o","s","i","t","i","o","n">>
Chars_id       == <<"i","d">>
Chars_num      == <<"n","u","m">>
Chars_number   == <<"n","u","m","b","e","r">>

\* (?:Hybrid|Onsite|Remote)
WorkTag(b, p) ==
    Lit(Chars_hybrid, TRUE, b, p) \o Lit(Chars_onsite, TRUE, b, p)
        \o Lit(Chars_remote, TRUE, b, p)

\* (?:\s*/\s*Local)?
OptLocal(b, p) ==
    FlatMap(LAMBDA q1 :
      FlatMap(LAMBDA q2 :
        FlatMap(LAMBDA q3 : Lit(Chars_local, TRUE, b, q3), Ws(b, q2)),
        Lit(<<"/">>, TRUE, b, q1)),
      Ws(b, p)) \o <<p>>

\* (?=\s+with\s+|\s*\(|$|\n)
TitleLookahead(b, p) ==
    \/ FlatMap(LAMBDA q1 :
         FlatMap(LAMBDA q2 : Greedy(Space, 1, b, q2), Lit(Chars_with, TRUE, b, q1)),
         Greedy(Space, 1, b, p)) # <<>>
    \/ FlatMap(LAMBDA q1 : Lit(<<"(">>, TRUE, b, q1), Ws(b, p)) # <<>>
    \/ AtEnd(b, p)
    \/ (p <= Len(b) /\ b[p] = "\n")

\* first alternative of group 1: tag, optional /Local, [^(]*\(.*?\)
TitleAlt1(b, p) ==
    FlatMap(LAMBDA q1 :
      FlatMap(LAMBDA q2 :
        FlatMap(LAMBDA q3 :
          FlatMap(LAMBDA q4 :
            FlatMap(LAMBDA q5 : Lit(<<")">>, TRUE, b, q5), Lazy(NotNewline(b), b, q4)),
            Lit(<<"(">>, TRUE, b, q3)),
          Greedy(NotParen(b), 0, b, q2)),
        OptLocal(b, q1)),
      WorkTag(b, p))

\* second alternative of group 1: tag, optional /Local, .*?
TitleAlt2(b, p) ==
    FlatMap(LAMBDA q1 :
      FlatMap(LAMBDA q2 : Lazy(NotNewline(b), b, q2), OptLocal(b, q1)),
      WorkTag(b, p))

\* title_pattern at p: the <<start, end>> of group 1, in backtracking order
TitlePattern(b, p) ==
    LET ends == Keep(LAMBDA e : TitleLookahead(b, e), TitleAlt1(b, p) \o TitleAlt2(b, p))
    IN  [i \in 1..Len(ends) |-> <<p, ends[i]>>]

\* lines 173-176: the title, or None
TitleOf(b) ==
    LET m == Search(TitlePattern, b)
    IN  IF m = <<>> THEN None ELSE Strip(SubSeq(b, m[1], m[2] - 1))

\* (?:job\s*|req\s*|position\s*)?
IdPrefix(b, p) ==
    FlatMap(LAMBDA q : Ws(b, q), Lit(Chars_job, TRUE, b, p))
      \o FlatMap(LAMBDA q : Ws(b, q), Lit(Chars_req, TRUE, b, p))
      \o FlatMap(LAMBDA q : Ws(b, q), Lit(Chars_position, TRUE, b, p))
      \o <<p>>

\* (?:id\s*|#\s*|num\s*|number\s*)
IdLabel(b, p) ==
    FlatMap(LAMBDA q : Ws(b, q), Lit(Chars_id, TRUE, b, p))
      \o FlatMap(LAMBDA q : Ws(b, q), Lit(<<"#">>, TRUE, b, p))
      \o FlatMap(LAMBDA q : Ws(b, q), Lit(Chars_num, TRUE, b, p))
      \o FlatMap(LAMBDA q : Ws(b, q), Lit(Chars_number, TRUE, b, p))

\* ([A-Za-z]{2,}-?\d{3,}) at p: its <<start, end>>
IdHyphen(b, p) ==
    FlatMap(LAMBDA q1 :
      FlatMap(LAMBDA q2 :
        FlatMap(LAMBDA q3 : <<<<p, q3>>>>, Greedy(Digit, 3, b, q2)),
        Lit(<<"-">>, FALSE, b, q1) \o <<q1>>),
      Greedy(Letter, 2, b, p))

\* ([A-Za-z]{2,}\s*\d{3,}) at p: its <<start, end>>
IdSpaced(b, p) ==
    FlatMap(LAMBDA q1 :
      FlatMap(LAMBDA q2 :
        FlatMap(LAMBDA q3 : <<<<p, q3>>>>, Greedy(Digit, 3, b, q2)),
        Ws(b, q1)),
      Greedy(Letter, 2, b, p))

\* job_id_patterns[0]
IdPattern1(b, p) ==
    FlatMap(LAMBDA q1 :
      FlatMap(LAMBDA q2 :
        FlatMap(LAMBDA q3 : IdHyphen(b, q3), Greedy({":", "="} \cup Space, 0, b, q2)),
        IdLabel(b, q1)),
      IdPrefix(b, p))

\* job_id_patterns[1]
IdPattern2(b, p) ==
    FlatMap(LAMBDA q1 :
      FlatMap(LAMBDA q2 :
        FlatMap(LAMBDA q3 : IdSpaced(b, q3), Greedy({":", "="} \cup Space, 0, b, q2)),
        IdLabel(b, q1)),
      IdPrefix(b, p))

\* [:-]?
OptColonHyphen(b, p) ==
    (IF p <= Len(b) /\ b[p] \in {":", "-"} THEN <<p + 1>> ELSE <<>>) \o <<p>>

\* job_id_patterns[2]
IdPattern3(b, p) ==
    IF ~Boundary(b, p) THEN <<>>
    ELSE
    FlatMap(LAMBDA q1 :
      FlatMap(LAMBDA q2 :
        FlatMap(LAMBDA q3 :
          FlatMap(LAMBDA q4 :
            FlatMap(LAMBDA q5 : IdHyphen(b, q5), Ws(b, q4)),
            OptColonHyphen(b, q3)),
          Ws(b, q2)),
        Keep(LAMBDA q : Boundary(b, q), IdLabel(b, q1))),
      IdPrefix(b, p))

\* job_id_patterns[3]
IdPattern4(b, p) ==
    IF p > 1 /\ b[p - 1] \in Word THEN <<>>
    ELSE Keep(LAMBDA m : ~(m[2] <= Len(b) /\ b[m[2]] \in Word), IdHyphen(b, p))

\* lines 186-194: the first pattern that matches anywhere wins
JobIdMatch(b) ==
    LET m1 == Search(IdPattern1, b)
        m2 == Search(IdPattern2, b)
        m3 == Search(IdPattern3, b)
        m4 == Search(IdPattern4, b)
    IN  IF m1 # <<>> THEN m1 ELSE IF m2 # <<>> THEN m2
        ELSE IF m3 # <<>> THEN m3 ELSE m4

\* lines 189-192: strip, remove whitespace, uppercase
NormalizeJobId(s) == Upper(RemoveSpace(Strip(s)))

JobIdOf(b) ==
    LET m == JobIdMatch(b)
    IN  IF m = <<>> THEN None ELSE NormalizeJobId(SubSeq(b, m[1], m[2] - 1))

\* r'{}\s*\((\d+)\)'.format(re.escape(job_id)) at p: <<start, end>> of the digits
DatePattern(id, b, p) ==
    FlatMap(LAMBDA q1 :
      FlatMap(LAMBDA q2 :
        FlatMap(LAMBDA q3 :
          FlatMap(LAMBDA q4 :
            FlatMap(LAMBDA q5 : <<<<q3, q4>>>>, Lit(<<")">>, FALSE, b, q4)),
            Greedy(Digit, 1, b, q3)),
          Lit(<<"(">>, FALSE, b, q2)),
        Ws(b, q1)),
      Lit(id, FALSE, b, p))

\* lines 203-207: the last four digits, split two and two
DueDateFrom(full_number) ==
    LET n == Len(full_number)
        last_four == IF n <= 4 THEN full_number ELSE SubSeq(full_number, n - 3, n)
    IN  IF Len(last_four) = 4
        THEN SubSeq(last_four, 1, 2) \o <<"/">> \o SubSeq(last_four, 3, 4)
        ELSE None

\* the date search made whether or not a job id was found
DueDateOf_unguarded(job_id, b) ==
    LET id == IF job_id = None THEN <<>> ELSE job_id
        m  == Search(LAMBDA bb, p : DatePattern(id, bb, p), b)
    IN  IF m = <<>> THEN None ELSE DueDateFrom(SubSeq(b, m[1], m[2] - 1))

\* lines 197-207: the due date is searched only when a job id was found
DueDateOf(job_id, b) ==
    IF job_id = None \/ job_id = <<>> THEN None
    ELSE LET m == Search(LAMBDA bb, p : DatePattern(job_id, bb, p), b)
         IN  IF m = <<>> THEN None ELSE DueDateFrom(SubSeq(b, m[1], m[2] - 1))

NoJobData == [Title |-> None, Job_ID |-> None, Due_date |-> None]

\* extract_job_details
ExtractJobDetails(b) ==
    IF b = None \/ b = <<>> THEN NoJobData
    ELSE [Title    |-> TitleOf(b),
          Job_ID   |-> JobIdOf(b),
          Due_date |-> DueDateOf(JobIdOf(b), b)]

\* ------------------------------------------- bodies the extractor is run on

MaxFrags == 3

Fragments == {
    <<"R","e","m","o","t","e">>,
    <<" ","D","e","v">>,
    <<" ","(","F","T",")">>,
    <<" ","w","i","t","h"," ">>,
    <<"J","o","b"," ","I","D",":"," ">>,
    <<"A","B","-","1","2","3">>,
    <<"a","b"," ","1","2","3","4">>,
    <<" ","(","2","0","2","3","0","6","1","5",")">>,
    <<"\n">> }

\* "Remote Software Engineer (Full-time) with Job ID: ABC-12345 (20230615)"
ScenarioBody ==
    <<"R","e","m","o","t","e"," ","S","o","f","t","w","a","r","e"," ","E","n","g","i","n","e","e","r"," ","(","F","u","l","l","-","t","i","m","e",")">>
    \o <<" ","w","i","t","h"," ","J","o","b"," ","I","D",":"," ","A","B","C","-","1","2","3","4","5"," ","(","2","0","2","3","0","6","1","5",")">>

FragBodies ==
    LET f[k \in 0..MaxFrags] ==
          IF k = 0 THEN {<<>>}
          ELSE f[k-1] \cup {x \o y : x \in f[k-1], y \in Fragments}
    IN  f[MaxFrags]

Bodies == FragBodies \cup {ScenarioBody, None}

\* -------------------------------------------------------- process_job_ids

MaxRows   == 2
MaxCount  == 1
MaxPhases == 2

COL_COUNT == "No_of_emails"
Text_0 == <<"0">>
Text_5 == <<"5">>
Text_Remote == <<"R","e","m","o","t","e">>
Text_AB123 == <<"A","B","-","1","2","3">>

RECURSIVE Str(_)
\* str(n) of a non-negative integer
Str(n) ==
    LET d == <<"0","1","2","3","4","5","6","7","8","9">>
    IN  IF n < 10 THEN <<d[n + 1]>> ELSE Str(n \div 10) \o <<d[(n % 10) + 1]>>

\* dict.get(key, '')
Get(row, key) == IF key \in DOMAIN row THEN row[key] ELSE <<>>

\* count_emails_for_job_id: the estimate, or 0 when the query raised
CountEmailsForJobId(q) == IF q.raised THEN 0 ELSE q.estimate

\* line 239
RowJobId(row) ==
    IF Strip(Get(row, "Job ID")) # <<>> THEN Strip(Get(row, "Job ID"))
    ELSE Strip(Get(row, "Job_ID"))

\* the column appended without the test of line 233
AddCountColumn_always(t) ==
    [cols |-> Append(t.cols, COL_COUNT),
     rows |-> [i \in 1..Len(t.rows) |->
                 [c \in DOMAIN t.rows[i] \cup {COL_COUNT} |->
                    IF c = COL_COUNT THEN Text_0 ELSE t.rows[i][c]]]]

\* lines 233-236: the column is appended, and every row set to '0', when absent
AddCountColumn(t) ==
    IF COL_COUNT \in Range(t.cols) THEN t
    ELSE [cols |-> Append(t.cols, COL_COUNT),
          rows |-> [i \in 1..Len(t.rows) |->
                      [c \in DOMAIN t.rows[i] \cup {COL_COUNT} |->
                         IF c = COL_COUNT THEN Text_0 ELSE t.rows[i][c]]]]

\* lines 238-245: one row of the loop, q the outcome of its count query
EnrichRow(row, q) ==
    IF RowJobId(row) # <<>>
    THEN [c \in DOMAIN row \cup {COL_COUNT} |->
            IF c = COL_COUNT THEN Str(CountEmailsForJobId(q)) ELSE row[c]]
    ELSE row

\* process_job_ids on the table read from the checkpoint: the table written back
ProcessJobIds(t, qs) ==
    LET u == AddCountColumn(t)
    IN  [cols |-> u.cols,
         rows |-> [i \in 1..Len(u.rows) |-> EnrichRow(u.rows[i], qs[i])]]

Absent == [cols |-> <<>>, rows |-> <<>>, exists |-> FALSE]
File(t) == [cols |-> t.cols, rows |-> t.rows, exists |-> TRUE]

QueryOutcomes ==
    {[raised |-> TRUE, estimate |-> 0]}
      \cup {[raised |-> FALSE, estimate |-> n] : n \in 0..MaxCount}

SeqsUpTo(S, n) == UNION {[1..k -> S] : k \in 0..n}

\* the checkpoints the phase is run on: with either name of the id column,
\* with and without the count column
Checkpoints ==
    LET idcol == {"Job_ID", "Job ID"}
        mk(id, withCount) ==
          LET cols == IF withCount THEN <<"Title", id, "Due_date", COL_COUNT>>
                      ELSE <<"Title", id, "Due_date">>
              cell(c) == IF c = "Title" THEN {Text_Remote}
                         ELSE IF c = id THEN {<<>>, Text_AB123}
                         ELSE IF c = COL_COUNT THEN {Text_0, Text_5}
                         ELSE {<<>>}
              Rows == {r \in [Range(cols) -> {<<>>, Text_Remote, Text_AB123, Text_0, Text_5}] :
                          \A c \in Range(cols) : r[c] \in cell(c)}
          IN  {[cols |-> cols, rows |-> rs] : rs \in SeqsUpTo(Rows, MaxRows)}
    IN  UNION {mk(id, wc) : id \in idcol, wc \in BOOLEAN}

\* ------------------------------------------------- app.py: data of a run

MaxMsgs     == 2
MaxMsgsPar  == 1
MaxWorkers  == 2

L_ACCESS  == "Accessing Gmails..."
L_INSIDE  == "Processing inside emails..."
L_EXTRACT == "Extracting email body data..."
\* the label of line 30 written again at line 62
L_COUNT_copied == L_INSIDE

L_COUNT   == "Counting no of submissions using job IDs..."
L_SEND    == "Sending final output as email to receiver Gmail..."

temp_csv   == "temp_duedates.csv"
excel_path == "duedates_formatted.xlsx"
csv_path   == "duedates.csv"
Paths      == {temp_csv, excel_path, csv_path}
\* results_file = None
NoFile     == "None"

\* bodies of the messages of the primary inbox; extract_email_body gives None
\* for a message that holds no text part or cannot be fetched
Body_full     == <<"R","e","m","o","t","e"," ","D","e","v"," ","w","i","t","h"," ","J","o","b"," ","I","D",":"," ","A","B","-","1","2","3"," ","(","2","0","2","3","0","6","1","5",")">>
Body_untitled == <<"J","o","b"," ","I","D",":"," ","a","b"," ","1","2","3","4">>
Body_titled   == <<"R","e","m","o","t","e"," ","D","e","v">>
PipelineBodies == {Body_full, Body_untitled, Body_titled, None}

DfCols == <<"Title", "Job_ID", "Due_date">>

\* line 46: extract_job_details on each body an inbox can hold, tabulated
JobDetailsOf == [b \in PipelineBodies |-> ExtractJobDetails(b)]

\* lines 41-48: the records of the messages that have a body, in order
RECURSIVE ExtractAll(_)
ExtractAll(bodies) ==
    IF bodies = <<>> THEN <<>>
    ELSE (IF Head(bodies) # None /\ Head(bodies) # <<>>
          THEN <<JobDetailsOf[Head(bodies)]>> ELSE <<>>)
         \o ExtractAll(Tail(bodies))

\* the frame left as it is
DropNaTitle_none(records) == records

\* df.dropna(subset=['Title'])
DropNaTitle(records) == SelectSeq(records, LAMBDA r : r.Title # None)

\* DataFrame.to_csv: a null cell is written as the empty field
ToCsv(cols, records) ==
    [cols |-> cols,
     rows |-> [i \in 1..Len(records) |->
                 [c \in Range(cols) |->
                    IF records[i][c] = None THEN <<>> ELSE records[i][c]]]]

\* the fields pandas reads as a missing value
NaTexts == { <<>>, <<"N","A">>, <<"N","/","A">>, <<"n","/","a">>, <<"N","a","N">>,
             <<"n","a","n">>, <<"N","U","L","L">>, <<"n","u","l","l">>,
             <<"N","o","n","e">> }

\* pd.read_csv: the rows of the table, a missing value is null
ReadCsv(f) ==
    [cols |-> f.cols,
     rows |-> [i \in 1..Len(f.rows) |->
                 [c \in Range(f.cols) |->
                    IF f.rows[i][c] \in NaTexts THEN None ELSE f.rows[i][c]]]]

\* lines 94-99: every cell is written as str(value), a null as "nan"
ToExcel(df) ==
    [cols |-> df.cols,
     rows |-> [i \in 1..Len(df.rows) |->
                 [c \in Range(df.cols) |->
                    IF df.rows[i][c] = None THEN <<"n","a","n">> ELSE df.rows[i][c]]]]

NoTable == [cols |-> <<>>, rows |-> <<>>]

\* ------------------------------------------- app.py: process_emails_background

Workers  == 1..MaxWorkers

\* a slot with no thread in it
IdleWorker ==
    [pc |-> "idle", messages |-> <<>>, results |-> <<>>, final_df |-> NoTable,
     err |-> "", fetch_failed |-> FALSE, before |-> NoFile, produced |-> FALSE]

\* how a run went, recorded when its thread enters the finally block and
\* until the next thread is started: the exception that ended it (err), whether the listing of the
\* inbox raised, results_file as the thread started, and whether the run
\* assigned results_file
NoRun == [any |-> FALSE, err |-> "", fetch_failed |-> FALSE, before |-> NoFile,
          produced |-> FALSE]
RunOf(wk) == [any |-> TRUE, err |-> wk.err, fetch_failed |-> wk.fetch_failed,
              before |-> wk.before, produced |-> wk.produced]

NoStatus ==
    [taken |-> FALSE, processing |-> FALSE, completed |-> FALSE, progress |-> <<>>,
     data |-> <<>>, error |-> ""]

\* the pcs of the try block, of the handler and of the finally block
BodyPcs    == {"l23", "l29", "l33", "l40", "l51", "l61", "l63", "l66", "l67", "l70", "l110",
               "l118"}
CleanupPcs == {"l127", "l128", "l129"}
LivePcs    == BodyPcs \cup {"except"} \cup CleanupPcs
Failed(wk) == wk.err # ""

Live(w) == workers[w].pc \in LivePcs

\* an exception e leaves the try block for the handler of line 123
Raised(wk, e) == [wk EXCEPT !.pc = "except", !.err = e]

Goto(wk, pc) == [wk EXCEPT !.pc = pc]

\* what a step of the orchestrator leaves alone
Others == UNCHANGED <<xvars, evars, mailbox>> /\ last_status' = NoStatus
Step   == Others /\ UNCHANGED ended

\* worker w goes on as wk; the locals are dead once the finally block is entered
Move(w, wk) ==
    /\ workers' = [workers EXCEPT ![w] =
                     IF wk.pc = "l127" THEN [IdleWorker EXCEPT !.pc = "l127"] ELSE wk]
    /\ ended' = IF wk.pc = "l127" THEN RunOf(wk) ELSE ended

\* line 23
L23(w) ==
    /\ workers[w].pc = "l23"
    /\ progress_state' = <<L_ACCESS>>
    /\ Move(w, Goto(workers[w], "l29"))
    /\ UNCHANGED <<processing, results_file, process_completed, files, request>>
    /\ Others

\* lines 29-30: auto_authenticate_primary_gmail returns or raises
L29(w) ==
    /\ workers[w].pc = "l29"
    /\ \E ok \in BOOLEAN :
         /\ progress_state' = IF ok THEN <<L_INSIDE>> ELSE progress_state
         /\ Move(w, IF ok THEN Goto(workers[w], "l33") ELSE Raised(workers[w], "AuthFailure"))
    /\ UNCHANGED <<processing, results_file, process_completed, files, request>>
    /\ Others

\* get_recent_emails: the handles of the inbox, or [] when the listing raised
GetRecentEmails(ok) == IF ok THEN [i \in 1..Len(mailbox.primary) |-> i] ELSE <<>>

\* lines 33-37: no messages, return
L33(w) ==
    /\ workers[w].pc = "l33"
    /\ \E ok \in BOOLEAN :
         LET messages == GetRecentEmails(ok)
         IN  Move(w, [workers[w] EXCEPT !.messages = messages, !.fetch_failed = ~ok,
                           !.pc = IF messages = <<>> THEN "l127" ELSE "l40"])
    /\ UNCHANGED <<gvars, files, request>>
    /\ Others

\* lines 40-48: the body of each message listed is fetched and parsed
L40(w) ==
    /\ workers[w].pc = "l40"
    /\ progress_state' = <<L_EXTRACT>>
    /\ Move(w, [workers[w] EXCEPT !.results =
                       ExtractAll([i \in 1..Len(workers[w].messages) |->
                                     mailbox.primary[workers[w].messages[i]]]),
                     !.pc = "l51"])
    /\ UNCHANGED <<processing, results_file, process_completed, files, request>>
    /\ Others

\* lines 51-58: an empty frame has no Title column and dropna raises KeyError;
\* the titled records are written to the checkpoint
L51(w) ==
    /\ workers[w].pc = "l51"
    /\ LET df == DropNaTitle(workers[w].results)
       IN  \E ok \in BOOLEAN :
             IF workers[w].results = <<>>
             THEN /\ Move(w, Raised(workers[w], "KeyError"))
                  /\ files' = files
             ELSE IF df = <<>>
             THEN /\ Move(w, Goto(workers[w], "l127"))
                  /\ files' = files
             ELSE IF ok
             THEN /\ Move(w, Goto(workers[w], "l61"))
                  /\ files' = [files EXCEPT ![temp_csv] = File(ToCsv(DfCols, df))]
             ELSE /\ Move(w, Raised(workers[w], "CheckpointIOFailure"))
                  /\ files' = files
    /\ UNCHANGED <<gvars, request>>
    /\ Others

\* lines 61-62: auto_authenticate_secondary_gmail returns or raises
L61(w) ==
    /\ workers[w].pc = "l61"
    /\ \E ok \in BOOLEAN :
         /\ progress_state' = IF ok THEN <<L_COUNT>> ELSE progress_state
         /\ Move(w, IF ok THEN Goto(workers[w], "l63") ELSE Raised(workers[w], "AuthFailure"))
    /\ UNCHANGED <<processing, results_file, process_completed, files, request>>
    /\ Others

\* line 63: process_job_ids rewrites the checkpoint, or raises when the file
\* cannot be read or written
L63(w) ==
    /\ workers[w].pc = "l63"
    /\ \E ok \in BOOLEAN :
         IF ok /\ files[temp_csv].exists
         THEN /\ files' = [files EXCEPT ![temp_csv] = File(ProcessJobIds(@,
                               [i \in 1..Len(@.rows) |-> mailbox.secondary]))]
              /\ Move(w, Goto(workers[w], "l66"))
         ELSE /\ files' = files
              /\ Move(w, Raised(workers[w], "CheckpointIOFailure"))
    /\ UNCHANGED <<gvars, request>>
    /\ Others

\* line 66: the checkpoint is reloaded
L66(w) ==
    /\ workers[w].pc = "l66"
    /\ \E ok \in BOOLEAN :
         Move(w, IF ok /\ files[temp_csv].exists
             THEN [workers[w] EXCEPT !.final_df = ReadCsv(files[temp_csv]), !.pc = "l67"]
             ELSE Raised(workers[w], "CheckpointIOFailure"))
    /\ UNCHANGED <<gvars, files, request>>
    /\ Others

\* line 67: os.remove(temp_csv)
L67(w) ==
    /\ workers[w].pc = "l67"
    /\ IF files[temp_csv].exists
       THEN /\ files' = [files EXCEPT ![temp_csv] = Absent]
            /\ Move(w, Goto(workers[w], "l70"))
       ELSE /\ files' = files
            /\ Move(w, Raised(workers[w], "CheckpointIOFailure"))
    /\ UNCHANGED <<gvars, request>>
    /\ Others

\* how the export of lines 70-118 can go
ExportOutcomes == {"xlsx", "xlsx_raises", "csv", "csv_raises"}

\* results_file assigned before the workbook is written
ExportPath_early(how, old) ==
    IF how \in {"xlsx", "xlsx_raises"} THEN excel_path
    ELSE IF how = "csv" THEN csv_path ELSE old

\* lines 106 and 117: results_file after the export, old its value before
ExportPath(how, old) ==
    IF how = "xlsx" THEN excel_path
    ELSE IF how = "csv" THEN csv_path ELSE old

\* lines 70-118: the workbook is written and results_file set; on ImportError
\* the table is written as csv_path instead; any other exception is left to
\* the handler of line 123, results_file not assigned
L70(w) ==
    /\ workers[w].pc = "l70"
    /\ \E how \in ExportOutcomes :
         /\ files' = IF how = "xlsx"
                     THEN [files EXCEPT ![excel_path] = File(ToExcel(workers[w].final_df))]
                     ELSE IF how = "csv"
                     THEN [files EXCEPT ![csv_path] =
                             File(ToCsv(workers[w].final_df.cols, workers[w].final_df.rows))]
                     ELSE files
         /\ results_file' = ExportPath(how, results_file)
         /\ Move(w, IF how = "xlsx" THEN [workers[w] EXCEPT !.produced = TRUE, !.pc = "l110"]
                ELSE IF how = "csv" THEN [workers[w] EXCEPT !.produced = TRUE, !.pc = "l118"]
                ELSE Raised(workers[w], "ExportFailure"))
    /\ UNCHANGED <<processing, process_completed, progress_state, request>>
    /\ Others

\* lines 110-111: send_results_email catches whatever the sending raises
L110(w) ==
    /\ workers[w].pc = "l110"
    /\ progress_state' = <<L_SEND>>
    /\ Move(w, Goto(workers[w], "l127"))
    /\ UNCHANGED <<processing, results_file, process_completed, files, request>>
    /\ Others

\* line 118: the fallback is logged, and the try block is left
L118(w) ==
    /\ workers[w].pc = "l118"
    /\ Move(w, Goto(workers[w], "l127"))
    /\ UNCHANGED <<gvars, files, request>>
    /\ Others

\* the thread dying in the handler, the finally block not run
Except_dies(w) ==
    /\ workers[w].pc = "except"
    /\ workers' = [workers EXCEPT ![w] = IdleWorker]
    /\ ended' = RunOf(workers[w])
    /\ UNCHANGED <<gvars, files, request>>
    /\ Others

\* lines 123-125: the error is logged; flash, called outside a request,
\* raises RuntimeError, and the finally block runs
Except(w) ==
    /\ workers[w].pc = "except"
    /\ Move(w, Goto(workers[w], "l127"))
    /\ UNCHANGED <<gvars, files, request>>
    /\ Others

\* line 127
L127(w) ==
    /\ workers[w].pc = "l127"
    /\ processing' = FALSE
    /\ Move(w, Goto(workers[w], "l128"))
    /\ UNCHANGED <<results_file, process_completed, progress_state, files, request>>
    /\ Others

\* line 128
L128(w) ==
    /\ workers[w].pc = "l128"
    /\ progress_state' = <<>>
    /\ Move(w, Goto(workers[w], "l129"))
    /\ UNCHANGED <<processing, results_file, process_completed, files, request>>
    /\ Others

\* results_file and os.path.exists(results_file)
HasResults == results_file # NoFile /\ files[results_file].exists

\* line 129, and the thread ends
L129(w) ==
    /\ workers[w].pc = "l129"
    /\ process_completed' = HasResults
    /\ workers' = [workers EXCEPT ![w] = IdleWorker]
    /\ UNCHANGED ended
    /\ UNCHANGED <<processing, results_file, progress_state, files, request>>
    /\ Others

Worker(w) ==
    \/ L23(w) \/ L29(w) \/ L33(w) \/ L40(w) \/ L51(w) \/ L61(w) \/ L63(w)
    \/ L66(w) \/ L67(w) \/ L70(w) \/ L110(w) \/ L118(w) \/ Except(w)
    \/ L127(w) \/ L128(w) \/ L129(w)

\* ------------------------------------------------- app.py: the request handlers
\* One client: a start is asked for when the handler of the one before has
\* returned.  (Parallel start calls, which can both pass line 155, are the
\* limitation the design records; they are left out.)

\* the handler is past line 155 and will start a thread
AcceptPcs == {"l156", "l157", "l158", "l159"}

FreeSlots == {w \in Workers : ~Live(w)}

\* the flag not tested
CheckBranch_always(active) == "l156"

\* line 155: where the handler goes, given the flag it read
CheckBranch(active) == IF active THEN "l161" ELSE "l156"

\* line 155 of process_emails.  The number of threads is bounded: the call
\* is followed only while a slot is left for the thread it may start.
Req155 ==
    /\ request = "idle"
    /\ processing \/ FreeSlots # {}
    /\ request' = CheckBranch(processing)
    /\ UNCHANGED <<gvars, files, workers>>
    /\ Step

\* line 156
Req156 ==
    /\ request = "l156"
    /\ processing' = TRUE
    /\ request' = "l157"
    /\ UNCHANGED <<results_file, process_completed, progress_state, files, workers>>
    /\ Step

\* line 157
Req157 ==
    /\ request = "l157"
    /\ process_completed' = FALSE
    /\ request' = "l158"
    /\ UNCHANGED <<processing, results_file, progress_state, files, workers>>
    /\ Step

\* line 158
Req158 ==
    /\ request = "l158"
    /\ progress_state' = <<L_ACCESS>>
    /\ request' = "l159"
    /\ UNCHANGED <<processing, results_file, process_completed, files, workers>>
    /\ Step

\* line 159: the thread is started, and the handler returns
Req159 ==
    /\ request = "l159"
    /\ FreeSlots # {}
    /\ LET w == CHOOSE x \in FreeSlots : \A y \in FreeSlots : x <= y
       IN  workers' = [workers EXCEPT ![w] =
               [IdleWorker EXCEPT !.pc = "l23", !.before = results_file]]
    /\ request' = "idle"
    /\ ended' = NoRun
    /\ UNCHANGED <<gvars, files>>
    /\ Others

\* lines 161-162: the warning is flashed, and the handler returns
Req161 ==
    /\ request = "l161"
    /\ request' = "idle"
    /\ UNCHANGED <<gvars, files, workers>>
    /\ Step

\* the steps of process_emails after line 155
ReqRest == Req156 \/ Req157 \/ Req158 \/ Req159 \/ Req161

\* status(): the response; 'error' is set only when the results file
\* cannot be read (read_excel and read_csv take the same texts for missing
\* values)
StatusResponse(ok) ==
    [taken      |-> TRUE,
     processing |-> processing,
     completed  |-> process_completed,
     progress   |-> progress_state,
     data       |-> IF HasResults /\ ok THEN ReadCsv(files[results_file]).rows ELSE <<>>,
     error      |-> IF HasResults /\ ~ok THEN "read error" ELSE ""]

Status ==
    /\ \E ok \in BOOLEAN : last_status' = StatusResponse(ok)
    /\ UNCHANGED <<gvars, files, workers, request, xvars, evars, mailbox, ended>>

\* ------------------------------------------------------------ specifications

XIdle == body = None /\ job_data = NoJobData /\ xpc = "idle"
EIdle == checkpoint = Absent /\ prior = Absent /\ queries = <<>> /\ phases = 0
            /\ epc = "idle"

\* the application as it starts
OInit ==
    /\ processing = FALSE
    /\ results_file = NoFile
    /\ process_completed = FALSE
    /\ progress_state = <<>>
    /\ files = [p \in Paths |-> Absent]
    /\ workers = [w \in Workers |-> IdleWorker]
    /\ request = "idle"
    /\ last_status = NoStatus
    /\ ended = NoRun

\* the accounts: the messages of the primary inbox, and what the count query
\* of the secondary account answers (it is asked only for the id of Body_full)
Mailboxes(n) ==
    {[primary |-> bs, secondary |-> q] :
        bs \in SeqsUpTo(PipelineBodies, n),
        q \in {[raised |-> TRUE, estimate |-> 0], [raised |-> FALSE, estimate |-> MaxCount]}}
NoMail == [primary |-> <<>>, secondary |-> [raised |-> TRUE, estimate |-> 0]]
Asked(m) == Body_full \in Range(m.primary) \/ m.secondary = NoMail.secondary

Init ==
    /\ XIdle /\ EIdle /\ OInit
    /\ mailbox \in {m \in Mailboxes(MaxMsgsPar) : Asked(m)}

Next ==
    \/ Req155 \/ ReqRest
    \/ \E w \in Workers : Worker(w)
    \/ Status

\* the handlers and the worker threads, interleaved
Spec == Init /\ [][Next]_vars

\* the threads are scheduled fairly: a worker thread that can take a step,
\* and a handler past line 155, eventually take it (every external call
\* returns or raises); no start request has to be made
Fairness ==
    /\ \A w \in Workers : WF_vars(Worker(w))
    /\ WF_vars(ReqRest)

\* the start requests and the threads; status() changes nothing they read
NextLive ==
    \/ Req155 \/ ReqRest
    \/ \E w \in Workers : Worker(w)

SpecLive == Init /\ [][NextLive]_vars /\ Fairness

\* no thread of an earlier run is alive
NoCleanup == \A w \in Workers : workers[w].pc \notin CleanupPcs

InitRun ==
    /\ XIdle /\ EIdle /\ OInit
    /\ mailbox \in {m \in Mailboxes(MaxMsgs) : Asked(m)}

NextRun ==
    \/ NoCleanup /\ Req155
    \/ ReqRest
    \/ \E w \in Workers : Worker(w)
    \/ Status

\* runs that do not overlap: no start request is made while the thread of
\* the run before is in its finally block
SpecRun == InitRun /\ [][NextRun]_vars

\* extract_job_details, statement by statement
X169 ==
    /\ xpc = "l169"
    /\ xpc' = IF body = None \/ body = <<>> THEN "return" ELSE "l174"
    /\ UNCHANGED <<body, job_data, evars, ovars, mailbox>>

X174 ==
    /\ xpc = "l174"
    /\ job_data' = [job_data EXCEPT !.Title = TitleOf(body)]
    /\ xpc' = "l186"
    /\ UNCHANGED <<body, evars, ovars, mailbox>>

X186 ==
    /\ xpc = "l186"
    /\ job_data' = [job_data EXCEPT !.Job_ID = JobIdOf(body)]
    /\ xpc' = "l197"
    /\ UNCHANGED <<body, evars, ovars, mailbox>>

X197 ==
    /\ xpc = "l197"
    /\ job_data' = [job_data EXCEPT !.Due_date = DueDateOf(job_data.Job_ID, body)]
    /\ xpc' = "return"
    /\ UNCHANGED <<body, evars, ovars, mailbox>>

InitExtract ==
    /\ body \in Bodies /\ job_data = NoJobData /\ xpc = "l169"
    /\ EIdle /\ OInit /\ mailbox = NoMail

NextExtract == X169 \/ X174 \/ X186 \/ X197

SpecExtract == InitExtract /\ [][NextExtract]_vars

\* process_job_ids returns: the checkpoint is rewritten
EnrichReturns ==
    /\ phases < MaxPhases
    /\ \E qs \in [1..Len(checkpoint.rows) -> QueryOutcomes] :
         /\ checkpoint' = File(ProcessJobIds(checkpoint, qs))
         /\ queries' = qs
    /\ prior' = checkpoint
    /\ phases' = phases + 1
    /\ epc' = "returned"
    /\ UNCHANGED <<xvars, ovars, mailbox>>

\* process_job_ids raises: the file could not be read or written
EnrichRaises ==
    /\ phases < MaxPhases
    /\ prior' = checkpoint
    /\ queries' = <<>>
    /\ phases' = phases + 1
    /\ epc' = "raised"
    /\ UNCHANGED <<checkpoint, xvars, ovars, mailbox>>

InitEnrich ==
    /\ checkpoint \in {File(t) : t \in Checkpoints}
    /\ prior = checkpoint /\ queries = <<>> /\ phases = 0 /\ epc = "ready"
    /\ XIdle /\ OInit /\ mailbox = NoMail

NextEnrich == EnrichReturns \/ EnrichRaises

SpecEnrich == InitEnrich /\ [][NextEnrich]_vars

\* ------------------------------------------------------------------ properties

\* C10: in every record extract_job_details builds, Due_date is null whenever
\* Job_ID is null: the date is searched only after a job-id pattern matched.
C10_DueDateOnlyWithJobId ==
    job_data.Job_ID = None => job_data.Due_date = None

\* the extractor has returned for a body that holds a parenthesised number
\* and no job id
C10_Witness ==
    /\ xpc = "return"
    /\ job_data.Job_ID = None
    /\ job_data.Title # None
    /\ \E i \in 1..(Len(body) - 2) :
         body[i] = "(" /\ body[i + 1] \in Digit /\ body[i + 2] \in Digit

\* how often column c is in the header
Occurrences(cols, c) == Cardinality({i \in DOMAIN cols : cols[i] = c})

HasNoJobId(row) == Get(row, "Job ID") = <<>> /\ Get(row, "Job_ID") = <<>>

\* C9: when process_job_ids has returned, the header holds No_of_emails exactly
\* once, every row has a value for it, and a row with an empty job id holds
\* "0" when the column was absent before the phase.
C9_CountColumnOnce ==
    epc = "returned" =>
        /\ Occurrences(checkpoint.cols, COL_COUNT) = 1
        /\ Len(checkpoint.rows) = Len(prior.rows)
        /\ \A i \in 1..Len(checkpoint.rows) :
             /\ COL_COUNT \in DOMAIN checkpoint.rows[i]
             /\ checkpoint.rows[i][COL_COUNT] # <<>>
             /\ (COL_COUNT \notin Range(prior.cols) /\ HasNoJobId(prior.rows[i]))
                   => checkpoint.rows[i][COL_COUNT] = Text_0

\* the phase has run a second time, on a checkpoint that had the column, with
\* a row that has a job id and a row that has none
C9_Witness ==
    /\ epc = "returned" /\ phases = 2
    /\ COL_COUNT \in Range(prior.cols)
    /\ \E i, j \in 1..Len(prior.rows) :
         HasNoJobId(prior.rows[i]) /\ ~HasNoJobId(prior.rows[j])

\* C6: when the count query of a record fails, process_job_ids still returns
\* and rewrites the checkpoint, and the record's No_of_emails is the value it
\* had before the phase.
C6_FailedQueryKeepsCount ==
    epc = "returned" =>
        \A i \in 1..Len(prior.rows) :
            (/\ COL_COUNT \in Range(prior.cols)
             /\ ~HasNoJobId(prior.rows[i])
             /\ queries[i].raised)
              => checkpoint.rows[i][COL_COUNT] = prior.rows[i][COL_COUNT]

\* the thread of the last run has ended, and no start has been accepted since
RunOver ==
    /\ ended.any
    /\ \A w \in Workers : ~Live(w)
    /\ request \notin AcceptPcs

\* C1: a start request that finds the processing flag set is rejected: it
\* goes to the warning of line 161 and returns, changing no flag, no path, no
\* file and starting no thread; and it is not queued: a thread is started
\* only by a request that found the flag clear at line 155.
C1_BusyStartRejected ==
    [][/\ (request = "idle" /\ request' # "idle" /\ processing)
            => (request' = "l161" /\ UNCHANGED <<gvars, files, workers>>)
       /\ (request = "l161" /\ request' # "l161")
            => (request' = "idle" /\ UNCHANGED <<gvars, files, workers>>)
       /\ (request' \in AcceptPcs /\ request \notin AcceptPcs)
            => (request = "idle" /\ ~processing)
       /\ (\E w \in Workers : workers[w].pc = "idle" /\ workers'[w].pc # "idle")
            => request = "l159"]_vars

\* a start request has been rejected while a thread is in its try block
C1_Witness ==
    /\ request = "l161"
    /\ processing
    /\ \E w \in Workers : workers[w].pc \in BodyPcs

\* C2: at most one thread executes process_emails_background at any time.
C2_SingleFlight ==
    Cardinality({w \in Workers : Live(w)}) <= 1

PhaseFailures == {"AuthFailure", "CheckpointIOFailure", "ExportFailure"}

\* C3: after a run that a phase-level failure aborted, a status query answers
\* with the error text of that failure, until a new run is started.
C3_ErrorRetained ==
    (RunOver /\ ended.err \in PhaseFailures /\ last_status.taken)
        => last_status.error = ended.err

\* C4: a run in which the listing of the inbox raised ends as a failed run.
C4_FetchFailureFatal ==
    (RunOver /\ ended.fetch_failed) => ended.err # ""

\* the records thread w extracted that have a Title, in order
TitledRecords(w) ==
    SelectSeq(workers[w].results, LAMBDA r : r.Title # None)

\* C5: once the table is exported, no row of the table reloaded from the
\* checkpoint, and no row of the artifact, has a null Title, and the rows are
\* the records with a Title of the messages whose body was decoded, in order.
C5_ExportedRowsTitled ==
    \A w \in Workers :
        workers[w].pc \in {"l110", "l118"} =>
            LET df   == workers[w].final_df.rows
                art  == files[results_file].rows
                recs == TitledRecords(w)
            IN  /\ \A i \in 1..Len(df) : df[i].Title \notin {None, <<>>}
                /\ \A i \in 1..Len(art) : art[i].Title \notin {None, <<>>, <<"n","a","n">>}
                /\ Len(df) = Len(recs)
                /\ Len(art) = Len(recs)
                /\ \A i \in 1..Len(df) :
                     /\ df[i].Title = recs[i].Title
                     /\ art[i].Title = recs[i].Title
                     /\ df[i].Job_ID = recs[i].Job_ID
                     /\ df[i].Due_date = recs[i].Due_date

\* a table is exported for an inbox that holds a message without a Title and
\* a message with one
C5_Witness ==
    \E w \in Workers :
        /\ workers[w].pc \in {"l110", "l118"}
        /\ Len(workers[w].results) = 2
        /\ Len(TitledRecords(w)) = 1

\* C7: when a run ends without a failure (the listing of the inbox did not
\* raise either), progress is empty, results_file has changed only if the run
\* produced an artifact, and a run that produced none is marked completed
\* with no artifact reported.
C7_DoneWithoutArtifact ==
    (RunOver /\ ended.err = "" /\ ~ended.fetch_failed) =>
        /\ progress_state = <<>>
        /\ (results_file # ended.before => ended.produced)
        /\ ~ended.produced => (process_completed /\ ~HasResults)

\* C8: when a run has failed, the processing flag and the progress are
\* cleared and results_file is what it was as the run started, the artifact
\* of an earlier run still there.
C8_FailedRunFrame ==
    (RunOver /\ ended.err # "") =>
        /\ processing = FALSE
        /\ progress_state = <<>>
        /\ ~ended.produced
        /\ results_file = ended.before
        /\ (ended.before # NoFile => HasResults)

\* a run has failed after an earlier run produced an artifact
C8_Witness ==
    /\ RunOver
    /\ ended.err \in PhaseFailures
    /\ ended.before # NoFile
    /\ HasResults

Text_Scenario_Title ==
    <<"R","e","m","o","t","e"," ","S","o","f","t","w","a","r","e"," ","E","n","g","i","n","e","e","r">>
Text_Scenario_JobId == <<"A","B","C","-","1","2","3","4","5">>
Text_Scenario_Due   == <<"0","6","/","1","5">>

\* C12: the Title extract_job_details returns stops before the first opening
\* parenthesis, so it holds none; and for the body "Remote Software Engineer
\* (Full-time) with Job ID: ABC-12345 (20230615)" the record is
\* Title "Remote Software Engineer", Job_ID "ABC-12345", Due_date "06/15".
C12_TitleStopsAtParen ==
    (xpc = "return" /\ job_data.Title # None) =>
        /\ "(" \notin Range(job_data.Title)
        /\ body = ScenarioBody =>
              /\ job_data.Title = Text_Scenario_Title
              /\ job_data.Job_ID = Text_Scenario_JobId
              /\ job_data.Due_date = Text_Scenario_Due

\* C14: no answer of status() shows a run as both active and completed: when
\* it holds processing true, it holds completed false.
C14_NotActiveAndCompleted ==
    last_status.taken => ~(last_status.processing /\ last_status.completed)

\* the place of a progress value in the order of the phases, 0 when empty
PhaseRank(p) ==
    IF p = <<>> THEN 0
    ELSE IF p = <<L_ACCESS>> THEN 1
    ELSE IF p = <<L_INSIDE>> THEN 2
    ELSE IF p = <<L_EXTRACT>> THEN 3
    ELSE IF p = <<L_COUNT>> THEN 4
    ELSE IF p = <<L_SEND>> THEN 5
    ELSE 6

\* C13: progress_state is empty or holds exactly one phase label; between
\* the start of a run (line 158) and its clearing (line 128) every change of
\* it goes to a label of a later phase; and the labels of the enrichment and
\* of the notification are written only by a thread that extracted at least
\* one record with a Title.
C13_ProgressForward ==
    [][/\ PhaseRank(progress_state') <= 5
       /\ progress_state' # progress_state =>
             \/ progress_state' = <<>>
             \/ request = "l158" /\ request' = "l159"
             \/ PhaseRank(progress_state') > PhaseRank(progress_state)
       /\ (progress_state' # progress_state
              /\ progress_state' \in {<<L_COUNT>>, <<L_SEND>>}) =>
             \E w \in Workers :
                 /\ workers'[w] # workers[w]
                 /\ TitledRecords(w) # <<>>]_vars

\* a run has written the label of the notification, its last one, for an
\* inbox that also holds a message without a Title
C13_Witness ==
    /\ progress_state = <<L_SEND>>
    /\ ended.any /\ ended.produced
    /\ Body_untitled \in Range(mailbox.primary)
    /\ \E w \in Workers : workers[w].pc = "l127"

\* C11: a thread that was started ends; on its way it executes line 127, so
\* the processing flag is cleared, whichever path the run takes; and a start
\* request that then reads the flag clear is accepted.
C11_RunTerminates ==
    /\ \A w \in Workers :
         (workers[w].pc \in LivePcs) ~> (workers[w].pc = "idle")
    /\ \A w \in Workers :
         (workers[w].pc \in BodyPcs \cup {"except"})
            ~> (workers[w].pc = "l128" /\ ~processing)
    /\ [][(request = "idle" /\ request' # "idle" /\ ~processing)
            => request' = "l156"]_vars

\* a start request is accepted after a run that an exception ended
C11_Witness ==
    /\ ended.any /\ ended.err # ""
    /\ \A w \in Workers : ~Live(w)
    /\ ~processing
    /\ request = "l156"

====
